---- MODULE Spec2Model ----
(***************************************************************************)
(* Milk Yield Dashboard (milking_streamlit.py).                            *)
(*                                                                         *)
(* State: the two tables the script reads (animals, milk_yield), the       *)
(* calendar day date.today() returns, the st.cache_data memo of the four   *)
(* loader/summary functions, and the page the last script run rendered.    *)
(* m_liters, m_counts and m_out hold two month-keyed frames and their      *)
(* merge, for the merge step taken on its own (SpecMerge).                 *)
(*                                                                         *)
(* Numbers: yield_value, liters and averages are fixed-point tenths of a   *)
(* liter (200 is 20.0 L).  A nullable value is a sequence of length 0      *)
(* (NULL / None) or 1.  A date is <<year, month, day>>; its ISO text       *)
(* 'YYYY-MM-DD' compares as the tuple compares, field by field.            *)
(***************************************************************************)
EXTENDS Integers, Sequences, FiniteSets, Bags, TLC

VARIABLES animals, milk_yield, today, cache, view, m_liters, m_counts, m_out

vars == <<animals, milk_yield, today, cache, view, m_liters, m_counts, m_out>>

\* ------------------------------------------------------------------ bounds
MaxRecords == 2
MaxDays == 1
MaxMerge == 2

\* --------------------------------------------------------------- nullables
NULL == <<>>
Some(x) == <<x>>
IsNull(o) == o = <<>>
Val(o) == o[1]
Coalesce(o, d) == IF IsNull(o) THEN d ELSE Val(o)

\* ---------------------------------------------------------------- calendar
\* datetime.date arithmetic: the day number of a civil date and back.
days_from_civil(dt) ==
    LET y0 == dt[1]
        m == dt[2]
        d == dt[3]
        y == IF m <= 2 THEN y0 - 1 ELSE y0
        era == y \div 400
        yoe == y - era * 400
        mp == IF m > 2 THEN m - 3 ELSE m + 9
        doy == (153 * mp + 2) \div 5 + d - 1
        doe == yoe * 365 + yoe \div 4 - yoe \div 100 + doy
    IN era * 146097 + doe - 719468

civil_from_days(z0) ==
    LET z == z0 + 719468
        era == z \div 146097
        doe == z - era * 146097
        yoe == (doe - doe \div 1460 + doe \div 36524 - doe \div 146096) \div 365
        doy == doe - (365 * yoe + yoe \div 4 - yoe \div 100)
        mp == (5 * doy + 2) \div 153
        d == doy - (153 * mp + 2) \div 5 + 1
        m == IF mp < 10 THEN mp + 3 ELSE mp - 9
        y == yoe + era * 400
    IN <<IF m <= 2 THEN y + 1 ELSE y, m, d>>

\* date - timedelta(days=n)
MinusDays(dt, n) == civil_from_days(days_from_civil(dt) - n)

\* (d1 - d0).days
DaysBetween(d0, d1) == days_from_civil(d1) - days_from_civil(d0)

\* Comparison of two ISO texts (SQLite TEXT, BINARY collation).
DateLT(a, b) ==
    \/ a[1] < b[1]
    \/ a[1] = b[1] /\ a[2] < b[2]
    \/ a[1] = b[1] /\ a[2] = b[2] /\ a[3] < b[3]

DateGE(a, b) == ~DateLT(a, b)

\* strftime('%Y-%m', record_date): NULL for a NULL date.
strftime_Ym(dt) == IF IsNull(dt) THEN NULL ELSE <<dt[1], dt[2]>>

\* ------------------------------------------------------------ table content
\* animals(ear_tag PRIMARY KEY, farm_name, birth_date).  T003 carries the
\* empty farm name, which load_farms leaves out of the farm list.
AnimalsTable ==
    { [ear_tag |-> "T001", farm_name |-> "Green Pastures", birth_date |-> <<2020, 5, 1>>],
      [ear_tag |-> "T002", farm_name |-> "Green Pastures", birth_date |-> NULL],
      [ear_tag |-> "T003", farm_name |-> "", birth_date |-> <<2021, 3, 7>>] }

EarTags == {a.ear_tag : a \in AnimalsTable}

\* Every farm_name of the table, the empty one included.
FarmNames == {a.farm_name : a \in AnimalsTable}

\* The day the dashboard is first opened.
Today0 == <<2024, 1, 10>>

\* record_date values: before the trailing window of Today0, on its first
\* day, inside it, after Today0, and NULL.
RecordDates == { <<2023, 1, 9>>, <<2023, 1, 10>>, <<2023, 2, 1>>, <<2024, 1, 11>>, NULL }

\* yield_value in tenths of a liter: 15.0 L and 1234.5 L.
YieldValues == {150, 12345}

\* record_year is derived from record_date when the row is written.
YearOf(dt) == IF IsNull(dt) THEN NULL ELSE Some(dt[1])

MilkRow(tag, dt, y) ==
    [ear_tag |-> tag, record_date |-> dt, record_year |-> YearOf(dt), yield_value |-> y]

RecordTypes == {MilkRow(tag, dt, y) : tag \in EarTags, dt \in RecordDates, y \in YieldValues}

BagOfSeq(s) ==
    [r \in {s[i] : i \in DOMAIN s} |-> Cardinality({i \in DOMAIN s : s[i] = r})]

\* Every content of milk_yield with at most n rows.
Tables(types, n) == {BagOfSeq(s) : s \in UNION {[1..k -> types] : k \in 0..n}}

\* ------------------------------------------------------------- SQL helpers
\* A query's row multiset is a bag: a function from row to its count.
\* WHERE: the rows of B that are in S, each as often as in B.
Where(B, S) == [r \in S \cap DOMAIN B |-> B[r]]

RECURSIVE CountRows(_)
\* COUNT(*)
CountRows(B) ==
    IF DOMAIN B = {} THEN 0
    ELSE LET r == CHOOSE x \in DOMAIN B : TRUE
         IN B[r] + CountRows([x \in DOMAIN B \ {r} |-> B[x]])

RECURSIVE SumYield(_)
SumYield(B) ==
    IF DOMAIN B = {} THEN 0
    ELSE LET r == CHOOSE x \in DOMAIN B : TRUE
         IN B[r] * r.yield_value + SumYield([x \in DOMAIN B \ {r} |-> B[x]])

\* SUM(yield_value): NULL over no rows.
SqlSum(B) == IF DOMAIN B = {} THEN NULL ELSE Some(SumYield(B))

\* Mutant: COUNT(record_date), every dated row counted.
CountDatedRows(B) ==
    LET dated(m) == ~IsNull(m.record_date)
    IN CountRows(Where(B, {x \in DOMAIN B : dated(x)}))

\* COUNT(DISTINCT record_date): NULLs are not counted.
CountDistinctDates(B) == Cardinality({r.record_date : r \in DOMAIN B} \ {NULL})

\* COUNT(DISTINCT ear_tag)
CountDistinctTags(B) == Cardinality({r.ear_tag : r \in DOMAIN B})

\* MIN(record_date), MAX(record_date): NULLs skipped, NULL when none is left.
MinDate(B) ==
    LET S == {r.record_date : r \in DOMAIN B} \ {NULL}
    IN IF S = {} THEN NULL ELSE CHOOSE d \in S : \A e \in S : ~DateLT(e, d)

MaxDate(B) ==
    LET S == {r.record_date : r \in DOMAIN B} \ {NULL}
    IN IF S = {} THEN NULL ELSE CHOOSE d \in S : \A e \in S : ~DateLT(d, e)

MaxYield(B) ==
    IF DOMAIN B = {} THEN NULL
    ELSE Some(CHOOSE v \in {r.yield_value : r \in DOMAIN B} :
                \A r \in DOMAIN B : r.yield_value <= v)

MinYield(B) ==
    IF DOMAIN B = {} THEN NULL
    ELSE Some(CHOOSE v \in {r.yield_value : r \in DOMAIN B} :
                \A r \in DOMAIN B : r.yield_value >= v)

\* ORDER BY record_year: NULL sorts first.
YearLT(a, b) == IF IsNull(a) THEN ~IsNull(b) ELSE ~IsNull(b) /\ Val(a) < Val(b)

RECURSIVE OrderYears(_)
OrderYears(S) ==
    IF S = {} THEN <<>>
    ELSE LET k == CHOOSE x \in S : \A y \in S : ~YearLT(y, x)
         IN <<k>> \o OrderYears(S \ {k})

\* ORDER BY month on 'YYYY-MM' text.
MonthLT(a, b) == a[1] < b[1] \/ (a[1] = b[1] /\ a[2] < b[2])

RECURSIVE OrderMonths(_)
OrderMonths(S) ==
    IF S = {} THEN <<>>
    ELSE LET k == CHOOSE x \in S : \A y \in S : ~MonthLT(y, x)
         IN <<k>> \o OrderMonths(S \ {k})

\* ---------------------------------------------------------------- rounding
\* n / d rounded to the nearest integer, ties to the even one (numpy round,
\* Python's format of a float).
RoundHalfEven(n, d) ==
    LET q == n \div d
        r == n % d
    IN IF 2 * r < d THEN q
       ELSE IF 2 * r > d THEN q + 1
       ELSE IF q % 2 = 0 THEN q ELSE q + 1

\* n / d rounded to the nearest integer, ties away from zero (SQLite ROUND).
RoundHalfUp(n, d) ==
    LET q == n \div d
        r == n % d
    IN IF 2 * r < d THEN q ELSE q + 1

\* A pandas float: a number of tenths, or inf, or NaN.
Num(v) == [kind |-> "num", v |-> v]
Inf == [kind |-> "inf", v |-> 0]
NaN == [kind |-> "nan", v |-> 0]

\* (liters / days).round(1): float division, x/0 is inf and 0/0 is NaN.
AvgDaily(liters, days) ==
    IF days = 0 THEN (IF liters = 0 THEN NaN ELSE Inf)
    ELSE Num(RoundHalfEven(liters, days))

\* ------------------------------------------------------------ data loaders
\* SELECT DISTINCT farm_name FROM animals WHERE farm_name <> ''
load_farms == {a.farm_name : a \in animals} \ {""}

\* SELECT ear_tag, birth_date FROM animals WHERE farm_name = ?
load_animals(farm_name) ==
    {[ear_tag |-> a.ear_tag, birth_date |-> a.birth_date] :
        a \in {x \in animals : x.farm_name = farm_name}}

\* milk_yield m JOIN animals a ON m.ear_tag = a.ear_tag WHERE a.farm_name = ?
FarmRows(farm_name) ==
    LET matches(m) ==
            Cardinality({a \in animals : a.ear_tag = m.ear_tag /\ a.farm_name = farm_name})
    IN [m \in {x \in DOMAIN milk_yield : matches(x) > 0} |-> milk_yield[m] * matches(m)]

\* milk_yield WHERE ear_tag = ?
AnimalRowsOf(ear_tag) ==
    LET mine(m) == m.ear_tag = ear_tag
    IN Where(milk_yield, {x \in DOMAIN milk_yield : mine(x)})

\* since = (date.today() - timedelta(days=365)).isoformat()
since == MinusDays(today, 365)

\* WHERE record_date >= since: a NULL record_date compares to NULL and the
\* row is dropped.  There is no upper limit.
SinceRows(B) ==
    LET recent(m) == ~IsNull(m.record_date) /\ DateGE(m.record_date, since)
    IN Where(B, {x \in DOMAIN B : recent(x)})

YearGroup(B, y) ==
    LET same(m) == m.record_year = y
    IN Where(B, {x \in DOMAIN B : same(x)})

MonthGroup(B, mo) ==
    LET same(m) == strftime_Ym(m.record_date) = mo
    IN Where(B, {x \in DOMAIN B : same(x)})

\* Mutant: the annual query leaves out the rows without a record_year.
FarmAnnual_DropNullYear(B) ==
    LET ys == OrderYears({m.record_year : m \in DOMAIN B} \ {NULL})
    IN [i \in DOMAIN ys |->
          LET G == YearGroup(B, ys[i])
          IN [year |-> ys[i],
              liters |-> SumYield(G),
              days |-> CountDistinctDates(G),
              cows |-> CountDistinctTags(G),
              avg_daily |-> AvgDaily(SumYield(G), CountDistinctDates(G))]]

\* GROUP BY record_year ORDER BY record_year, then the avg_daily column
\* (farm scope: with the cows column).
FarmAnnual(B) ==
    LET ys == OrderYears({m.record_year : m \in DOMAIN B})
    IN [i \in DOMAIN ys |->
          LET G == YearGroup(B, ys[i])
          IN [year |-> ys[i],
              liters |-> SumYield(G),
              days |-> CountDistinctDates(G),
              cows |-> CountDistinctTags(G),
              avg_daily |-> AvgDaily(SumYield(G), CountDistinctDates(G))]]

AnimalAnnual(B) ==
    LET ys == OrderYears({m.record_year : m \in DOMAIN B})
    IN [i \in DOMAIN ys |->
          LET G == YearGroup(B, ys[i])
          IN [year |-> ys[i],
              liters |-> SumYield(G),
              days |-> CountDistinctDates(G),
              avg_daily |-> AvgDaily(SumYield(G), CountDistinctDates(G))]]

\* SELECT strftime('%Y-%m', record_date) AS month, SUM(yield_value) AS liters
\* ... GROUP BY month ORDER BY month; liters.round(0).astype(int): whole liters.
MonthlyLiters(B) ==
    LET W == SinceRows(B)
        ms == OrderMonths({strftime_Ym(m.record_date) : m \in DOMAIN W})
    IN [i \in DOMAIN ms |->
          [month |-> ms[i], liters |-> RoundHalfEven(SumYield(MonthGroup(W, ms[i])), 10)]]

\* Mutant: the farm page counts records, as the animal page does.
MonthlyCows_Records(B) ==
    LET W == SinceRows(B)
        ms == OrderMonths({strftime_Ym(m.record_date) : m \in DOMAIN W})
    IN [i \in DOMAIN ms |->
          [month |-> ms[i], sessions |-> CountRows(MonthGroup(W, ms[i]))]]

\* ... COUNT(DISTINCT m.ear_tag) AS sessions (farm scope)
MonthlyCows(B) ==
    LET W == SinceRows(B)
        ms == OrderMonths({strftime_Ym(m.record_date) : m \in DOMAIN W})
    IN [i \in DOMAIN ms |->
          [month |-> ms[i], sessions |-> CountDistinctTags(MonthGroup(W, ms[i]))]]

\* ... COUNT(*) AS sessions (animal scope)
MonthlyRecords(B) ==
    LET W == SinceRows(B)
        ms == OrderMonths({strftime_Ym(m.record_date) : m \in DOMAIN W})
    IN [i \in DOMAIN ms |->
          [month |-> ms[i], sessions |-> CountRows(MonthGroup(W, ms[i]))]]

RECURSIVE merge(_, _)
\* df_12mo.merge(other, on="month", how="left").fillna(0): the rows of the
\* left frame in their order, each with the sessions of the right rows of
\* its month, or 0 when the right frame has none.
merge(left, right) ==
    IF left = <<>> THEN <<>>
    ELSE LET l == Head(left)
             hits == SelectSeq(right, LAMBDA r : r.month = l.month)
             rows == IF hits = <<>>
                     THEN <<[month |-> l.month, liters |-> l.liters, sessions |-> 0]>>
                     ELSE [i \in DOMAIN hits |->
                             [month |-> l.month, liters |-> l.liters,
                              sessions |-> hits[i].sessions]]
         IN rows \o merge(Tail(left), right)

\* The body of farm_yield_summary: total, days, df_year, df_12mo.
farm_yield_summary(farm_name) ==
    LET B == FarmRows(farm_name)
    IN [total |-> Coalesce(SqlSum(B), 0),
        days |-> CountDistinctDates(B),
        df_year |-> FarmAnnual(B),
        df_12mo |-> merge(MonthlyLiters(B), MonthlyCows(B))]

\* Mutant: the span without its last day.
Duration_Exclusive(B) ==
    IF IsNull(MinDate(B)) \/ IsNull(MaxDate(B)) THEN CountDistinctDates(B)
    ELSE DaysBetween(MinDate(B), MaxDate(B))

\* try: (d1 - d0).days + 1 / except: days.  MIN and MAX are None over no
\* dated row, and None has no .date().
Duration(B) ==
    IF IsNull(MinDate(B)) \/ IsNull(MaxDate(B)) THEN CountDistinctDates(B)
    ELSE DaysBetween(MinDate(B), MaxDate(B)) + 1

\* ROUND(AVG(yield_value), 1), MAX(yield_value), MIN(yield_value): all NULL
\* over no rows, and None after .iloc[0].to_dict().
Stats(B) ==
    [avg_daily |-> IF DOMAIN B = {} THEN NULL
                   ELSE Some(RoundHalfUp(SumYield(B), CountRows(B))),
     max_yield |-> MaxYield(B),
     min_yield |-> MinYield(B)]

\* The body of animal_yield_summary: total, days, duration, df_year, df_12mo,
\* stats.
animal_yield_summary(ear_tag) ==
    LET B == AnimalRowsOf(ear_tag)
    IN [total |-> Coalesce(SqlSum(B), 0),
        days |-> CountDistinctDates(B),
        duration |-> Duration(B),
        df_year |-> AnimalAnnual(B),
        df_12mo |-> merge(MonthlyLiters(B), MonthlyRecords(B)),
        stats |-> Stats(B)]

\* --------------------------------------------------------------- formatting
\* Text is a sequence of one-character strings.
Digit(d) == <<"0", "1", "2", "3", "4", "5", "6", "7", "8", "9">>[d + 1]

RECURSIVE Digits(_)
Digits(n) == IF n < 10 THEN <<Digit(n)>> ELSE Digits(n \div 10) \o <<Digit(n % 10)>>

RECURSIVE Thousands(_)
\* The "," option of format: a comma before every group of three digits.
Thousands(s) ==
    IF Len(s) <= 3 THEN s
    ELSE Thousands(SubSeq(s, 1, Len(s) - 3)) \o <<",">> \o SubSeq(s, Len(s) - 2, Len(s))

\* Mutant: the fraction is cut off instead of rounded.
Format0f_Truncate(x) == Thousands(Digits(x \div 10))

\* "{:,.0f}".format(x) of x tenths: rounded to a whole number, ties to even.
Format0f(x) == Thousands(Digits(RoundHalfEven(x, 10)))

\* "{:,.0f}".format(n) of an integer count.
FormatInt(n) == Thousands(Digits(n))

\* "{:,.1f}".format(x) of a float that carries one decimal.
Format1f(x) ==
    IF x.kind = "inf" THEN <<"i", "n", "f">>
    ELSE IF x.kind = "nan" THEN <<"n", "a", "n">>
    ELSE Thousands(Digits(x.v \div 10)) \o <<".", Digit(x.v % 10)>>

\* The four-column annual table as text: the display frame df_disp and the
\* CSV export carry the same cells.
FormatAnnual(df_year) ==
    [i \in DOMAIN df_year |->
        [Year |-> df_year[i].year,
         TotalLiters |-> Format0f(df_year[i].liters),
         DaysMilked |-> FormatInt(df_year[i].days),
         AvgDaily |-> Format1f(df_year[i].avg_daily)]]

\* The trend table tbl.
FormatTrend(df_12mo) ==
    [i \in DOMAIN df_12mo |->
        [Month |-> df_12mo[i].month,
         Liters |-> FormatInt(df_12mo[i].liters),
         MilkingSessions |-> FormatInt(df_12mo[i].sessions)]]

\* df_6mo: the animal's rows of the trailing 180 days with Liters formatted,
\* as a bag (rows of one date come in no stated order).
Last6Months(ear_tag) ==
    LET B == AnimalRowsOf(ear_tag)
        recent(m) == ~IsNull(m.record_date)
                     /\ DateGE(m.record_date, MinusDays(today, 180))
        W == Where(B, {x \in DOMAIN B : recent(x)})
        cell(m) == [Date |-> m.record_date, Liters |-> Format0f(m.yield_value)]
    IN [c \in {cell(m) : m \in DOMAIN W} |->
          LET same(m) == cell(m) = c IN CountRows(Where(W, {x \in DOMAIN W : same(x)}))]

\* ------------------------------------------------------------ st.cache_data
\* A memo is a function from the arguments seen so far to the value returned
\* the first time.  There is no ttl and nothing clears it.
Memo(memo, key, value) == IF key \in DOMAIN memo THEN memo[key] ELSE value

Remember(memo, key, value) == IF key \in DOMAIN memo THEN memo ELSE memo @@ (key :> value)

EmptyCache ==
    [load_farms |-> <<>>, load_animals |-> <<>>,
     farm_yield_summary |-> <<>>, animal_yield_summary |-> <<>>]

\* The farm list the sidebar offers.
cached_load_farms == Memo(cache.load_farms, 1, load_farms)

cached_load_animals(farm) == Memo(cache.load_animals, farm, load_animals(farm))

cached_farm_yield_summary(farm) ==
    Memo(cache.farm_yield_summary, farm, farm_yield_summary(farm))

cached_animal_yield_summary(cow) ==
    Memo(cache.animal_yield_summary, cow, animal_yield_summary(cow))

\* ------------------------------------------------------------ the script run
\* What the last run of the script left on the page.  out is the tuple the
\* summary call returned, page the rendered widgets, error the exception
\* that ended the run ("none": the run reached the end of the script or a
\* st.stop()).
NoView == [mode |-> "none", farm |-> "", cow |-> "", out |-> NULL, page |-> NULL,
           error |-> "none"]

FarmPage(farm, r) ==
    [total_milk |-> Format0f(r.total),
     lactation_days |-> Digits(r.days),
     cows_registered |-> Cardinality(cached_load_animals(farm)),
     annual |-> FormatAnnual(r.df_year),
     trend |-> FormatTrend(r.df_12mo),
     csv |-> FormatAnnual(r.df_year)]

\* age = (date.today() - birth).days // 30 if birth else "-"
Age(birth) == IF IsNull(birth) THEN NULL ELSE Some(DaysBetween(birth, today) \div 30)

BirthOf(farm, cow) == (CHOOSE a \in cached_load_animals(farm) : a.ear_tag = cow).birth_date

CowPage(farm, cow, r) ==
    [birth |-> BirthOf(farm, cow),
     age |-> Age(BirthOf(farm, cow)),
     total_milk |-> Format0f(r.total),
     duration |-> Digits(r.duration),
     days_milked |-> Digits(r.days),
     avg_daily |-> Digits(Val(r.stats.avg_daily) \div 10)
                      \o <<".", Digit(Val(r.stats.avg_daily) % 10)>>,
     max_yield |-> r.stats.max_yield,
     min_yield |-> r.stats.min_yield,
     annual |-> FormatAnnual(r.df_year),
     trend |-> FormatTrend(r.df_12mo),
     detail |-> Last6Months(cow),
     csv |-> FormatAnnual(r.df_year)]

\* The sidebar still shows "-- pick a farm --": st.stop().
RunNoFarm ==
    /\ view' = [NoView EXCEPT !.mode = "pick a farm"]
    /\ cache' = [cache EXCEPT !.load_farms = Remember(@, 1, load_farms)]
    /\ UNCHANGED <<animals, milk_yield, today, m_liters, m_counts, m_out>>

\* mode == "Farm Overview"
RunFarmOverview(farm) ==
    /\ farm \in cached_load_farms
    /\ LET r == cached_farm_yield_summary(farm)
       IN view' = [mode |-> "Farm Overview", farm |-> farm, cow |-> "",
                   out |-> Some(r), page |-> Some(FarmPage(farm, r)), error |-> "none"]
    /\ cache' = [cache EXCEPT
                   !.load_farms = Remember(@, 1, load_farms),
                   !.farm_yield_summary = Remember(@, farm, farm_yield_summary(farm)),
                   !.load_animals = Remember(@, farm, load_animals(farm))]
    /\ UNCHANGED <<animals, milk_yield, today, m_liters, m_counts, m_out>>

\* mode == "Individual Cow", the sidebar still shows "-- pick a cow --".
RunNoCow(farm) ==
    /\ farm \in cached_load_farms
    /\ view' = [NoView EXCEPT !.mode = "pick a cow", !.farm = farm]
    /\ cache' = [cache EXCEPT
                   !.load_farms = Remember(@, 1, load_farms),
                   !.load_animals = Remember(@, farm, load_animals(farm))]
    /\ UNCHANGED <<animals, milk_yield, today, m_liters, m_counts, m_out>>

\* mode == "Individual Cow" with a cow picked.  f"{stats['avg_daily']:.1f}"
\* raises TypeError on None and the run ends there.
RunIndividualCow(farm, cow) ==
    /\ farm \in cached_load_farms
    /\ cow \in {a.ear_tag : a \in cached_load_animals(farm)}
    /\ LET r == cached_animal_yield_summary(cow)
       IN view' = IF IsNull(r.stats.avg_daily)
                  THEN [mode |-> "Individual Cow", farm |-> farm, cow |-> cow,
                        out |-> Some(r), page |-> NULL, error |-> "TypeError"]
                  ELSE [mode |-> "Individual Cow", farm |-> farm, cow |-> cow,
                        out |-> Some(r), page |-> Some(CowPage(farm, cow, r)),
                        error |-> "none"]
    /\ cache' = [cache EXCEPT
                   !.load_farms = Remember(@, 1, load_farms),
                   !.load_animals = Remember(@, farm, load_animals(farm)),
                   !.animal_yield_summary = Remember(@, cow, animal_yield_summary(cow))]
    /\ UNCHANGED <<animals, milk_yield, today, m_liters, m_counts, m_out>>

\* ------------------------------------------------------------- environment
\* The ingestion process writes a row of milk_yield.
InsertYield(row) ==
    /\ CountRows(milk_yield) < MaxRecords
    /\ milk_yield' = milk_yield (+) SetToBag({row})
    /\ UNCHANGED <<animals, today, cache, view, m_liters, m_counts, m_out>>

\* Midnight passes: date.today() returns the next day.
AdvanceDay ==
    /\ DaysBetween(Today0, today) < MaxDays
    /\ today' = MinusDays(today, -1)
    /\ UNCHANGED <<animals, milk_yield, cache, view, m_liters, m_counts, m_out>>

\* ---------------------------------------------------------- specifications
\* The dashboard over a table that does not change while it is open.
Init ==
    /\ animals = AnimalsTable
    /\ milk_yield \in Tables(RecordTypes, MaxRecords)
    /\ today = Today0
    /\ cache = EmptyCache
    /\ view = NoView
    /\ m_liters = <<>>
    /\ m_counts = <<>>
    /\ m_out = NULL

Next ==
    \/ RunNoFarm
    \/ \E farm \in FarmNames : RunFarmOverview(farm)
    \/ \E farm \in FarmNames : RunNoCow(farm)
    \/ \E farm \in FarmNames, cow \in EarTags :
          RunIndividualCow(farm, cow)

Spec == Init /\ [][Next]_vars

\* The dashboard over a table that is being written, across midnights.
LiveRecordTypes ==
    {MilkRow("T001", dt, 150) : dt \in { <<2023, 1, 10>>, <<2024, 1, 11>> }}

InitLive ==
    /\ animals = AnimalsTable
    /\ milk_yield = EmptyBag
    /\ today = Today0
    /\ cache = EmptyCache
    /\ view = NoView
    /\ m_liters = <<>>
    /\ m_counts = <<>>
    /\ m_out = NULL

NextLive ==
    \/ Next
    \/ \E row \in LiveRecordTypes : InsertYield(row)
    \/ AdvanceDay

SpecLive == InitLive /\ [][NextLive]_vars

\* The month-keyed merge on its own: two series as the monthly queries shape
\* them (one row per month, months ascending), then the merge.
MergeMonths == { <<2023, 11>>, <<2023, 12>>, <<2024, 1>> }

LitersSeries(f) ==
    LET ms == OrderMonths({mo \in MergeMonths : f[mo] > 0})
    IN [i \in DOMAIN ms |-> [month |-> ms[i], liters |-> f[ms[i]]]]

SessionsSeries(f) ==
    LET ms == OrderMonths({mo \in MergeMonths : f[mo] > 0})
    IN [i \in DOMAIN ms |-> [month |-> ms[i], sessions |-> f[ms[i]]]]

InitMerge ==
    /\ animals = AnimalsTable
    /\ milk_yield = EmptyBag
    /\ today = Today0
    /\ cache = EmptyCache
    /\ view = NoView
    /\ m_liters \in {LitersSeries(f) : f \in [MergeMonths -> 0..MaxMerge]}
    /\ m_counts \in {SessionsSeries(f) : f \in [MergeMonths -> 0..MaxMerge]}
    /\ m_out = NULL

ApplyMerge ==
    /\ IsNull(m_out)
    /\ m_out' = Some(merge(m_liters, m_counts))
    /\ UNCHANGED <<animals, milk_yield, today, cache, view, m_liters, m_counts>>

NextMerge == ApplyMerge

SpecMerge == InitMerge /\ [][NextMerge]_vars

\* ------------------------------------------------------------------ claims
ShowsFarm == view.mode = "Farm Overview"
ShowsCow == view.mode = "Individual Cow"
Out == Val(view.out)

RECURSIVE SumLiters(_)
SumLiters(rows) == IF rows = <<>> THEN 0 ELSE Head(rows).liters + SumLiters(Tail(rows))

\* The rows of milk_yield in the scope the page shows, one tuple per stored
\* row: <<row, k>> for the k-th copy.
ScopeCopies ==
    LET mine(m) == IF ShowsFarm
                   THEN \E a \in animals : a.ear_tag = m.ear_tag /\ a.farm_name = view.farm
                   ELSE m.ear_tag = view.cow
    IN UNION {{<<m, k>> : k \in 1..milk_yield[m]} : m \in {x \in DOMAIN milk_yield : mine(x)}}

RECURSIVE SumCopies(_)
SumCopies(S) ==
    IF S = {} THEN 0
    ELSE LET c == CHOOSE x \in S : TRUE IN c[1].yield_value + SumCopies(S \ {c})

\* C1: the liters of the annual rows farm_yield_summary returns add up to the
\* total the same call returns.
AnnualLitersSumToTotal == ShowsFarm => SumLiters(Out.df_year) = Out.total

\* C1 witness: a farm page whose annual table has two year rows.
AnnualTwoYears == ShowsFarm /\ Len(Out.df_year) >= 2 /\ Out.total > 0

\* C2: the duration animal_yield_summary returns is at least the lactation-day
\* count it returns, and both are 0 for an animal without records.
DurationCoversDays ==
    ShowsCow =>
        /\ Out.duration >= Out.days
        /\ ScopeCopies = {} => (Out.duration = 0 /\ Out.days = 0)

\* C2 witness: an animal milked on one day only, and the call has returned.
DurationOneDay == ShowsCow /\ Out.days = 1 /\ Out.duration = 1

\* C3: every month row of the 12-month trend is fed only by records dated
\* within [today - 365, today].
InWindowCopies(mo) ==
    {c \in ScopeCopies :
        /\ ~IsNull(c[1].record_date)
        /\ DateGE(c[1].record_date, MinusDays(today, 365))
        /\ DateGE(today, c[1].record_date)
        /\ strftime_Ym(c[1].record_date) = mo}

TrendOnlyFromWindow ==
    (ShowsFarm \/ ShowsCow) =>
        \A i \in DOMAIN Out.df_12mo :
            /\ InWindowCopies(Out.df_12mo[i].month) # {}
            /\ Out.df_12mo[i].liters =
                 RoundHalfEven(SumCopies(InWindowCopies(Out.df_12mo[i].month)), 10)

\* C4: a summary call returns the 12-month trend of the window and of the
\* table as they are when it is called.  (A script run changes neither the
\* table nor the day, so the state a run starts in is the state of its call.)
TrendComputedAtCallTime ==
    [][/\ \A farm \in FarmNames :
            (view' # view /\ view'.mode = "Farm Overview" /\ view'.farm = farm)
                => Val(view'.out).df_12mo = farm_yield_summary(farm).df_12mo
       /\ \A cow \in EarTags :
            (view' # view /\ view'.mode = "Individual Cow" /\ view'.cow = cow)
                => Val(view'.out).df_12mo = animal_yield_summary(cow).df_12mo]_vars

\* C5: every annual row has days > 0 and avg_daily = round(liters / days, 1),
\* a finite number.
AvgDailyGuarded ==
    (ShowsFarm \/ ShowsCow) =>
        \A i \in DOMAIN Out.df_year :
            /\ Out.df_year[i].days > 0
            /\ Out.df_year[i].avg_daily.kind = "num"
            /\ Out.df_year[i].avg_daily.v =
                 RoundHalfEven(Out.df_year[i].liters, Out.df_year[i].days)

\* C6: for an animal without records animal_yield_summary returns zero totals,
\* null stats, no annual row and no trend row, and the animal view renders to
\* the end without an exception.
EmptyCowRenders ==
    (ShowsCow /\ ScopeCopies = {}) =>
        /\ Out.total = 0
        /\ Out.days = 0
        /\ IsNull(Out.stats.avg_daily)
        /\ IsNull(Out.stats.max_yield)
        /\ IsNull(Out.stats.min_yield)
        /\ Out.df_year = <<>>
        /\ Out.df_12mo = <<>>
        /\ view.error = "none"

DigitValue(c) == CHOOSE d \in 0..9 : Digit(d) = c

RECURSIVE ParseDigits(_, _)
ParseDigits(text, acc) ==
    IF text = <<>> THEN acc
    ELSE ParseDigits(Tail(text), 10 * acc + DigitValue(Head(text)))

ParseNumber(text) == ParseDigits(SelectSeq(text, LAMBDA c : c # ","), 0)

Csv == Val(view.page).csv

\* C8 as stated: re-parsing 'Total Liters' and 'Days Milked' of the export
\* gives back the liters and the days of the annual table exactly.
CsvRoundTripExact ==
    ~IsNull(view.page) =>
        \A i \in DOMAIN Csv :
            /\ ParseNumber(Csv[i].TotalLiters) * 10 = Out.df_year[i].liters
            /\ ParseNumber(Csv[i].DaysMilked) = Out.df_year[i].days

\* C8 amended: re-parsing gives back the days exactly and the liters rounded
\* to the nearest whole liter, ties to the even one.
CsvRoundTripRounded ==
    ~IsNull(view.page) =>
        /\ Len(Csv) = Len(Out.df_year)
        /\ \A i \in DOMAIN Csv :
              /\ ParseNumber(Csv[i].TotalLiters) = RoundHalfEven(Out.df_year[i].liters, 10)
              /\ ParseNumber(Csv[i].DaysMilked) = Out.df_year[i].days

\* C8 witness: an exported row with fractional liters and a thousands
\* separator.
CsvFractionalThousands ==
    /\ ~IsNull(view.page)
    /\ \E i \in DOMAIN Csv :
          /\ Out.df_year[i].liters % 10 # 0
          /\ \E k \in DOMAIN Csv[i].TotalLiters : Csv[i].TotalLiters[k] = ","

\* C9: total liters is the sum of yield_value over the scope's records (0 for
\* none) and lactation days the number of distinct record dates among them.
TotalsSumAndDistinctDays ==
    (ShowsFarm \/ ShowsCow) =>
        /\ Out.total = SumCopies(ScopeCopies)
        /\ Out.days = Cardinality({c[1].record_date : c \in ScopeCopies} \ {NULL})

\* C9 witness: a farm page over two animals milked on the same single date.
TwoCowsOneDay ==
    /\ ShowsFarm
    /\ Cardinality({c[1].ear_tag : c \in ScopeCopies}) = 2
    /\ Cardinality(ScopeCopies) = 2
    /\ Out.days = 1

\* The scope's records the trend queries select for a month: dated on or
\* after today - 365.
SinceCopies(mo) ==
    {c \in ScopeCopies :
        /\ ~IsNull(c[1].record_date)
        /\ DateGE(c[1].record_date, MinusDays(today, 365))
        /\ strftime_Ym(c[1].record_date) = mo}

====
